---------------------------- MODULE Spec2Model ----------------------------
(***************************************************************************)
(* A model of parse_xcp_stats.py: the numeric normalizer (convert), the    *)
(* fixed-width extractor (getfields), the two report parsers               *)
(* (ScanStats.fromWindows, ScanStats.fromCSV) and the aggregation done by  *)
(* the __main__ block.                                                     *)
(*                                                                         *)
(* Python strings are TLA+ strings; a file is the sequence of its lines,   *)
(* each with its trailing newline, as readlines() returns them.  Offsets   *)
(* into strings are 0-based as in Python unless a definition says          *)
(* otherwise.  The script is Python 2 (it writes str to a file opened      *)
(* 'wb'), so None orders below every number.                               *)
(***************************************************************************)
EXTENDS Integers, Sequences, FiniteSets, TLC

\* Bounds of the model.
MaxFiles == 3          \* longest batch (sys.argv[1:]) of the aggregation runs
MaxLines == 3          \* longest report file of the parser runs
MaxCols == 2           \* most label tokens in a label row of the extractor runs

\* src/parse_xcp_stats.py:32
MaxField == 9

\* src/parse_xcp_stats.py:34-45
Histograms ==
  << "Maximum Values", "Average Values", "Space used", "Top File Extensions",
     "Number of files", "Directory entries", "Depth", "Modified", "Created",
     "Changed" >>

\* src/parse_xcp_stats.py:59-67 (the keys of the OrderedDict, in order)
SingleValueOutputs ==
  << "Total space used", "Regular files", "Directories", "Symbolic links",
     "Junctions", "Hard links", "Special files" >>

Range(f) == {f[i] : i \in DOMAIN f}

SetMin(S) == CHOOSE x \in S : \A y \in S : x <= y
SetMax(S) == CHOOSE x \in S : \A y \in S : x >= y

\* The element of a one-element set; { e(x) : x \in {v} } names the value v once.
Only(S) == CHOOSE x \in S : TRUE

---------------------------------------------------------------------------
(* Python str primitives.                                                  *)

\* The character of s at 1-based position i.
Ch(s, i) == SubSeq(s, i, i)

\* The characters str.strip() and str.split() treat as whitespace.
IsWS(c) == c \in {" ", "\t", "\n", "\r"}

\* s.startswith(p)
StartsWith(s, p) == Len(s) >= Len(p) /\ SubSeq(s, 1, Len(p)) = p

\* s.endswith(p)
EndsWith(s, p) == Len(s) >= Len(p) /\ SubSeq(s, Len(s) - Len(p) + 1, Len(s)) = p

\* The 0-based offsets at which p occurs in s.
Occurrences(s, p) ==
  {i \in 0..(Len(s) - Len(p)) : SubSeq(s, i + 1, i + Len(p)) = p}

\* p in s
Contains(s, p) == Occurrences(s, p) # {}

\* s.index(p): the first occurrence; -1 stands for the ValueError.
Index(s, p) == IF Occurrences(s, p) = {} THEN -1 ELSE SetMin(Occurrences(s, p))

\* s.lstrip(chars), s.rstrip(chars) and s.strip(): chars is a set of characters.
LStripChars(s, chars) ==
  LET keep == {i \in 1..Len(s) : Ch(s, i) \notin chars}
  IN  IF keep = {} THEN "" ELSE SubSeq(s, SetMin(keep), Len(s))

RStripChars(s, chars) ==
  LET keep == {i \in 1..Len(s) : Ch(s, i) \notin chars}
  IN  IF keep = {} THEN "" ELSE SubSeq(s, 1, SetMax(keep))

WSChars == {" ", "\t", "\n", "\r"}

Strip(s) == RStripChars(LStripChars(s, WSChars), WSChars)

\* s.replace(c, '') for a single character c.
RECURSIVE Remove(_, _)
Remove(s, c) ==
  IF s = "" THEN ""
  ELSE (IF Ch(s, 1) = c THEN "" ELSE Ch(s, 1)) \o Remove(SubSeq(s, 2, Len(s)), c)

\* s.split(c) for a single character c: at least one field, empty ones kept.
RECURSIVE SplitOn(_, _)
SplitOn(s, c) ==
  LET at == Index(s, c)
  IN  IF at = -1 THEN << s >>
      ELSE << SubSeq(s, 1, at) >> \o SplitOn(SubSeq(s, at + 2, Len(s)), c)

\* The spans of the whitespace-separated tokens of s from 0-based offset `from`
\* on, left to right: each [b, e) with b the offset of the token's first
\* character and e the offset after its last.
RECURSIVE TokenSpans(_, _)
TokenSpans(s, from) ==
  LET starts == {i \in from..(Len(s) - 1) : ~IsWS(Ch(s, i + 1))}
  IN  IF starts = {} THEN << >>
      ELSE LET b == SetMin(starts)
               stops == {i \in b..(Len(s) - 1) : IsWS(Ch(s, i + 1))}
               e == IF stops = {} THEN Len(s) ELSE SetMin(stops)
           IN  << [b |-> b, e |-> e] >> \o TokenSpans(s, e)

\* s.split()
SplitWS(s) ==
  LET spans == TokenSpans(s, 0)
  IN  [k \in 1..Len(spans) |-> SubSeq(s, spans[k].b + 1, spans[k].e)]

\* s[a:b] with Python's slice rules: a negative bound counts from the end,
\* both bounds are clamped to the string, an empty range gives ''.
PySlice(s, a, b) ==
  LET n == Len(s)
      lo0 == IF a < 0 THEN a + n ELSE a
      hi0 == IF b < 0 THEN b + n ELSE b
      lo == IF lo0 < 0 THEN 0 ELSE IF lo0 > n THEN n ELSE lo0
      hi == IF hi0 < 0 THEN 0 ELSE IF hi0 > n THEN n ELSE hi0
  IN  IF lo >= hi THEN "" ELSE SubSeq(s, lo + 1, hi)

\* seq[i] for a Python list with a possibly negative index i in range.
PyItem(seq, i) == IF i < 0 THEN seq[Len(seq) + i + 1] ELSE seq[i + 1]

Digits == {"0", "1", "2", "3", "4", "5", "6", "7", "8", "9"}

DigitVal(c) ==
  CASE c = "0" -> 0 [] c = "1" -> 1 [] c = "2" -> 2 [] c = "3" -> 3
    [] c = "4" -> 4 [] c = "5" -> 5 [] c = "6" -> 6 [] c = "7" -> 7
    [] c = "8" -> 8 [] c = "9" -> 9

RECURSIVE Pow10(_)
Pow10(d) == IF d = 0 THEN 1 ELSE 10 * Pow10(d - 1)

\* The number a non-empty string of digits denotes.
RECURSIVE DigitsVal(_)
DigitsVal(s) ==
  IF s = "" THEN 0
  ELSE 10 * DigitsVal(SubSeq(s, 1, Len(s) - 1)) + DigitVal(Ch(s, Len(s)))

AllDigits(s) == \A i \in 1..Len(s) : Ch(s, i) \in Digits

\* A result of int() or float(): ok = FALSE stands for the ValueError.
Fail == [ok |-> FALSE, n |-> 0]
Ok(n) == [ok |-> TRUE, n |-> n]

\* int(s): surrounding whitespace, an optional sign, then digits.
PyInt(s) ==
  LET t == Strip(s)
      signed == t # "" /\ Ch(t, 1) \in {"+", "-"}
      body == IF signed THEN SubSeq(t, 2, Len(t)) ELSE t
  IN  IF body = "" \/ ~AllDigits(body) THEN Fail
      ELSE Ok(IF signed /\ Ch(t, 1) = "-" THEN -DigitsVal(body) ELSE DigitsVal(body))

\* int(float(s) * n) for the decimal notations sign, digits, one optional
\* point: the product truncated toward zero.  (Exponents, inf and nan are
\* outside the alphabet of the inputs checked.)
PyFloatTimes(s, n) ==
  LET t == Strip(s)
      signed == t # "" /\ Ch(t, 1) \in {"+", "-"}
      body == IF signed THEN SubSeq(t, 2, Len(t)) ELSE t
      dot == Index(body, ".")
      whole == IF dot = -1 THEN body ELSE SubSeq(body, 1, dot)
      frac == IF dot = -1 THEN "" ELSE SubSeq(body, dot + 2, Len(body))
      mag == (DigitsVal(whole \o frac) * n) \div Pow10(Len(frac))
  IN  IF whole \o frac = "" \/ ~AllDigits(whole \o frac) THEN Fail
      ELSE Ok(IF signed /\ Ch(t, 1) = "-" THEN -mag ELSE mag)

---------------------------------------------------------------------------
(* convert, src/parse_xcp_stats.py:71-89                                   *)

\* The suffix tables of convert; a suffix is tried in the order sizes, counts.
sizes == << "KiB", "MiB", "GiB", "TiB" >>
counts == << "K", "M", "B", "T" >>

SizeFactor(s) ==
  CASE s = "KiB" -> 1024 [] s = "MiB" -> 1024 * 1024
    [] s = "GiB" -> 1024 * 1024 * 1024 [] s = "TiB" -> 1024 * 1024 * 1024 * 1024

CountFactor(s) ==
  CASE s = "K" -> 1000 [] s = "M" -> 1000 * 1000
    [] s = "B" -> 1000 * 1000 * 1000 [] s = "T" -> 1000 * 1000 * 1000 * 1000

\* The characters of a string, for rstrip(s).
CharsOf(s) == {Ch(s, i) : i \in 1..Len(s)}

\* The integer convert(val) returns (its second component); ok = FALSE
\* stands for the ValueError of int() or float().
convert(val) ==
  LET v == Strip(Remove(val, ","))
      sz == {s \in Range(sizes) : EndsWith(v, s)}
      ct == {s \in Range(counts) : EndsWith(v, s)}
  IN  IF Strip(v) = "" THEN Ok(0)
      ELSE IF sz # {}
        THEN LET s == CHOOSE x \in sz : TRUE
             IN  PyFloatTimes(RStripChars(v, CharsOf(s)), SizeFactor(s))
      ELSE IF ct # {}
        THEN LET s == CHOOSE x \in ct : TRUE
             IN  PyFloatTimes(RStripChars(v, CharsOf(s)), CountFactor(s))
      ELSE PyInt(v)

---------------------------------------------------------------------------
(* getfields, src/parse_xcp_stats.py:91-105                                *)

\* The labels of the age histogram, which contain spaces (line 94).
AgeNames ==
  << ">1 year", ">1 month", "1-31 days", "1-24 hrs", "<1 hour", "<15 mins",
     "future", "invalid" >>

\* The label list of a label row (lines 92-96).
FieldNames(line1) ==
  IF Contains(line1, ">1 year") THEN AgeNames ELSE SplitWS(line1)

\* The start of the slice of the value row taken for `name` (line 101):
\* index() finds the first place the text of the label occurs in the row.
FieldStart(line1, name) == Index(line1, name) + Len(name) - MaxField

\* The value under one label (lines 101-102); a label that does not occur in
\* the row makes index() raise.
FieldValue(line1, line2, name) ==
  IF ~Contains(line1, name) THEN Fail
  ELSE LET i == FieldStart(line1, name)
       IN  convert(PySlice(line2, i, i + MaxField))

\* getfields(line1, line2): ok = FALSE when a conversion or index() raised.
getfields(line1, line2) ==
  Only({ Only({ IF \E k \in 1..Len(names) : ~vals[k].ok
                  THEN [ok |-> FALSE, names |-> << >>, values |-> << >>]
                  ELSE [ok |-> TRUE, names |-> names,
                        values |-> [k \in 1..Len(names) |-> vals[k].n]] :
                vals \in {[k \in 1..Len(names) |->
                             FieldValue(line1, line2, names[k])]} }) :
         names \in {FieldNames(line1)} })

---------------------------------------------------------------------------
(* Python values and dicts.                                                *)

\* A Python value held in a record or a table cell: None, a number or a str.
PyNone == [k |-> "None", n |-> 0, s |-> ""]
PyNum(n) == [k |-> "num", n |-> n, s |-> ""]
PyStr(s) == [k |-> "str", n |-> 0, s |-> s]

\* A dict is a function on its keys.
EmptyDict == [x \in {} |-> 0]
Put(d, key, val) == [x \in (DOMAIN d) \cup {key} |-> IF x = key THEN val ELSE d[x]]

\* The result of processing one line: exc = "" when the line raised nothing,
\* else the name of the exception; hist = TRUE when the line matched a
\* histogram title and ended in `continue`.
Raised(self, name) == [exc |-> name, self |-> self, hist |-> FALSE]
Went(self) == [exc |-> "", self |-> self, hist |-> FALSE]
WentHist(self) == [exc |-> "", self |-> self, hist |-> TRUE]

---------------------------------------------------------------------------
(* ScanStats, src/parse_xcp_stats.py:107-119                               *)

\* Histo(title, labels, values), lines 107-111.
Histo(title, labels, values) ==
  [title |-> title, labels |-> labels, values |-> values]

\* ScanStats.__init__, lines 114-119.  skip1 is the attribute fromCSV adds
\* (line 160); "" stands for its None (both are false in `if self.skip1`).
NewScanStats(fileName) ==
  [fileName |-> fileName, hists |-> EmptyDict, single |-> EmptyDict,
   source |-> PyNone, nError |-> 0, skip1 |-> ""]

---------------------------------------------------------------------------
(* ScanStats.fromWindows, src/parse_xcp_stats.py:129-154                   *)

\* KeepErrors with the last count read replacing the one kept.
KeepErrorsLast(nError, nErr) == nErr

\* The error count kept after a line reporting nErr errors (line 142).
KeepErrors(nError, nErr) == IF nErr > nError THEN nErr ELSE nError

\* Lines 138-142: the record after the error-count check of one line.
WinErrors(self, line) ==
  IF ~Contains(line, " errors, ") THEN Went(self)
  ELSE LET fs == SplitOn(line, ",")
           at == SetMin({k \in 1..Len(fs) : Contains(fs[k], "errors")})
           toks == SplitWS(fs[at])
       IN  IF Len(toks) # 2 THEN Raised(self, "ValueError")
           ELSE IF ~PyInt(toks[1]).ok THEN Raised(self, "ValueError")
           ELSE Went([self EXCEPT !.nError = KeepErrors(@, PyInt(toks[1]).n)])

\* Line 144: the line without surrounding whitespace and "== " markers.
WinTitle(line) ==
  RStripChars(LStripChars(Strip(line), {"=", " "}), {" ", "="})

\* line.partition(':'), line 150: the text before and after the first colon.
BeforeColon(line) ==
  IF Contains(line, ":") THEN SubSeq(line, 1, Index(line, ":")) ELSE line
AfterColon(line) ==
  IF Contains(line, ":") THEN SubSeq(line, Index(line, ":") + 2, Len(line)) ELSE ""

\* Lines 144-153: the title and scalar rules of one line, n its 0-based index.
WinTitleOrScalar(self, lines, n) ==
  Only({
    IF title \in Range(Histograms)
      THEN IF n + 2 >= Len(lines) THEN Raised(self, "IndexError")
           ELSE Only({ IF ~g.ok THEN Raised(self, "ValueError")
                       ELSE WentHist([self EXCEPT !.hists =
                              Put(@, title,
                                  Histo(title, g.names,
                                        [k \in 1..Len(g.values) |->
                                           PyNum(g.values[k])]))]) :
                       g \in {getfields(lines[n + 2], lines[n + 3])} })
    ELSE IF BeforeColon(lines[n + 1]) \in Range(SingleValueOutputs)
      THEN Only({ IF ~c.ok THEN Raised(self, "ValueError")
                  ELSE Went([self EXCEPT
                               !.single = Put(@, BeforeColon(lines[n + 1]), c.n)]) :
                  c \in {convert(AfterColon(lines[n + 1]))} })
    ELSE Went(self) :
    title \in {WinTitle(lines[n + 1])} })

\* The body of the loop of fromWindows for line n (0-based), lines 134-153.
WinLine(self, lines, n) ==
  LET line == lines[n + 1]
  IN  IF StartsWith(line, "xcp scan")
        THEN LET toks == SplitWS(line)
                 at == {k \in 1..Len(toks) : StartsWith(toks[k], "\\")}
             IN  IF at = {} THEN Raised(self, "StopIteration")
                 ELSE Went([self EXCEPT !.source = PyStr(toks[SetMin(at)])])
      ELSE Only({ IF e.exc # "" THEN e ELSE WinTitleOrScalar(e.self, lines, n) :
                  e \in {WinErrors(self, line)} })

\* WinResume with the two rows read by getfields skipped.
WinResumeSkipping(n, hist) == IF hist THEN n + 3 ELSE n + 1

\* The index of the line the loop of fromWindows examines after line n
\* (enumerate, lines 133, 136, 149): `continue` moves to the next line.
WinResume(n, hist) == n + 1

---------------------------------------------------------------------------
(* ScanStats.fromCSV, src/parse_xcp_stats.py:156-207                       *)

\* SkipCheck with the assertion compiled out.
SkipCheckOff(line, skip1) == TRUE

\* The assertion on a line that follows a histogram's label line (line 163).
SkipCheck(line, skip1) == StartsWith(line, skip1)

\* Lines 174-180: a summary line with an error count.
CsvSummary(self, line) ==
  LET fields == SplitWS(PySlice(line, Len("summary,\""), -1))
      at == {k \in 1..Len(fields) : fields[k] = "errors,"}
  IN  IF at = {} THEN Raised(self, "ValueError")
      ELSE LET i == SetMin(at) - 1          \* fields.index("errors,"), 0-based
               tok == PyItem(fields, i - 1) \* index -1 is the last field
           IN  IF ~PyInt(tok).ok THEN Raised(self, "ValueError")
               ELSE Went([self EXCEPT !.nError = PyInt(tok).n])

\* Lines 182-202: the histogram and scalar rules of one line.
CsvFields(self, lines, n) ==
  LET fields == SplitOn(lines[n + 1], ",")
      title == fields[1]
  IN  IF title \in Range(Histograms)
        THEN IF n + 1 >= Len(lines) THEN Raised(self, "IndexError")
             ELSE LET labels == Tail(fields)
                      vals == Tail(SplitOn(lines[n + 2], ","))
                  IN  WentHist([self EXCEPT
                        !.hists = Put(@, title,
                            Histo(title, labels,
                                  [k \in 1..Len(vals) |-> PyStr(vals[k])])),
                        !.skip1 = title])
      ELSE IF title \notin Range(SingleValueOutputs) THEN Went(self)
      ELSE IF Len(fields) < 2 THEN Raised(self, "IndexError")
      ELSE IF ~PyInt(fields[2]).ok THEN Raised(self, "ValueError")
      ELSE Went([self EXCEPT !.single = Put(@, title, PyInt(fields[2]).n)])

\* The body of the loop of fromCSV for line n (0-based), lines 162-202.
CsvLine(self, lines, n) ==
  LET line == lines[n + 1]
      s0 == [self EXCEPT !.skip1 = ""]
  IN  IF self.skip1 # ""
        THEN IF SkipCheck(line, self.skip1) THEN Went(s0)
             ELSE Raised(self, "AssertionError")
      ELSE IF StartsWith(line, "scan ")
        THEN IF Len(SplitWS(line)) < 2 THEN Raised(self, "IndexError")
             ELSE Went([s0 EXCEPT !.source = PyStr(SplitWS(line)[2])])
      ELSE IF StartsWith(line, "summary,\"") /\ Contains(line, "errors,")
        THEN CsvSummary(s0, line)
      ELSE CsvFields(s0, lines, n)

---------------------------------------------------------------------------
(* The comparison table of __main__, src/parse_xcp_stats.py:223-285        *)

\* A cell of the table: the Python value v, and grp, the statistic the cell
\* was emitted for ("" for the three leading cells).  grp is a label of the
\* model; the program keeps only v.
Cell(v, grp) == [v |-> v, grp |-> grp]

\* n copies of the cell c; none when n <= 0, as ['']*n in Python.
Copies(c, n) == [i \in 1..n |-> c]

\* The concatenation of part[1], ..., part[k].
RECURSIVE Concat(_, _)
Concat(part, k) == IF k = 0 THEN << >> ELSE Concat(part, k - 1) \o part[k]

\* Lines 234-238: the histograms that get header columns, given the record of
\* the first file.
InHeader(stats0, title) ==
  title # "Top File Extensions" /\ title \in DOMAIN stats0.hists

\* Lines 267-273: the histograms whose values go into the row of a record.
InRow(stats, title) ==
  title # "Top File Extensions" /\ title \in DOMAIN stats.hists

\* Lines 225-249: the group header row.
MkHeader0(stats0) ==
  LET lead == << Cell(PyStr(""), ""), Cell(PyStr(""), ""), Cell(PyStr(""), "") >>
      scal == [k \in 1..Len(SingleValueOutputs) |->
                 Cell(PyStr(""), SingleValueOutputs[k])]
      grp(title) ==
        IF ~InHeader(stats0, title) THEN << >>
        ELSE << Cell(PyStr(title), title) >>
             \o Copies(Cell(PyStr(""), title), Len(stats0.hists[title].labels) - 1)
      part == [k \in 1..Len(Histograms) |-> grp(Histograms[k])]
  IN  lead \o scal \o Concat(part, Len(Histograms))

\* Lines 226-249: the column header row.
MkHeader(stats0) ==
  LET lead == << Cell(PyStr(""), ""), Cell(PyStr("Errors"), ""), Cell(PyStr(""), "") >>
      scal == [k \in 1..Len(SingleValueOutputs) |->
                 Cell(PyStr(SingleValueOutputs[k]), SingleValueOutputs[k])]
      grp(title) ==
        IF ~InHeader(stats0, title) THEN << >>
        ELSE LET labels == stats0.hists[title].labels
             IN  [k \in 1..Len(labels) |-> Cell(PyStr(labels[k]), title)]
      part == [k \in 1..Len(Histograms) |-> grp(Histograms[k])]
  IN  lead \o scal \o Concat(part, Len(Histograms))

\* Lines 257-274: the data row of one record.
MkRow(fileName, stats) ==
  LET errCount == IF stats.nError # 0 THEN PyNum(stats.nError) ELSE PyStr("")
      lead == << Cell(PyStr(fileName), ""), Cell(errCount, ""),
                 Cell(stats.source, "") >>
      get(title) ==
        IF title \in DOMAIN stats.single THEN PyNum(stats.single[title]) ELSE PyNone
      scal == [k \in 1..Len(SingleValueOutputs) |->
                 Cell(get(SingleValueOutputs[k]), SingleValueOutputs[k])]
      grp(title) ==
        IF ~InRow(stats, title) THEN << >>
        ELSE LET values == stats.hists[title].values
             IN  [k \in 1..Len(values) |-> Cell(values[k], title)]
      part == [k \in 1..Len(Histograms) |-> grp(Histograms[k])]
  IN  lead \o scal \o Concat(part, Len(Histograms))

\* Python 2's order on the sort keys met here (None and numbers): None is
\* below every number.
KeyLess(a, b) ==
  \/ a.k = "None" /\ b.k = "num"
  \/ a.k = "num" /\ b.k = "num" /\ a.n < b.n

\* The sort key of a row (line 285): its fourth cell.
SortKey(row) == row[4].v

\* Where list.sort(reverse=True) puts `row` in an already sorted list: the
\* sort is stable, so after every row whose key is not less than its own.
RECURSIVE InsertDesc(_, _)
InsertDesc(sorted, row) ==
  IF sorted = << >> THEN << row >>
  ELSE IF KeyLess(SortKey(Head(sorted)), SortKey(row))
         THEN << row >> \o sorted
         ELSE << Head(sorted) >> \o InsertDesc(Tail(sorted), row)

RECURSIVE SortFrom(_, _)
SortFrom(sorted, rest) ==
  IF rest = << >> THEN sorted
  ELSE SortFrom(InsertDesc(sorted, Head(rest)), Tail(rest))

\* SortRows without reverse=True.
SortRowsAscending(rs) ==
  Only({ [k \in 1..Len(srt) |-> srt[Len(srt) + 1 - k]] : srt \in {SortFrom(<< >>, rs)} })

\* rows.sort(key=lambda row: row[3], reverse=True), line 285.
SortRows(rs) == SortFrom(<< >>, rs)

---------------------------------------------------------------------------
(* The state of a run of the script.                                       *)

VARIABLES
  files,        \* the file system: file name -> the lines of the file
  fileNames,    \* sys.argv[1:] (line 210)
  fileIdx,      \* 1-based position of the loop of line 213 in fileNames
  file2stats,   \* the dict of line 211
  self,         \* the ScanStats being built by fromWindows / fromCSV
  loopLineNum,  \* the local lineNum of the parser's loop (lines 133, 161)
  exc,          \* the exception in flight or that ended the run, "" if none
  lineNum,      \* the module-level lineNum of line 69
  console,      \* what was printed, oldest first
  header0,      \* line 225
  header,       \* line 226
  rows,         \* line 252
  outFile,      \* the rows written to stats.csv, << >> while not written
  pc,           \* where the script is
  line1,        \* the label row given to getfields in the extractor runs
  line2,        \* the value row given to getfields in the extractor runs
  fields        \* what getfields returned in the extractor runs

vars ==
  << files, fileNames, fileIdx, file2stats, self, loopLineNum, exc, lineNum,
     console, header0, header, rows, outFile, pc, line1, line2, fields >>

NoFields == [ok |-> FALSE, names |-> << >>, values |-> << >>]

\* The state the module and __main__ start in (lines 69, 210-211).
InitRun ==
  /\ fileIdx = 1
  /\ file2stats = EmptyDict
  /\ self = NewScanStats("")
  /\ loopLineNum = 0
  /\ exc = ""
  /\ lineNum = PyNone
  /\ console = << >>
  /\ header0 = << >>
  /\ header = << >>
  /\ rows = << >>
  /\ outFile = << >>

SeqsUpTo(S, n) == UNION {[1..k -> S] : k \in 0..n}

---------------------------------------------------------------------------
(* Inputs.                                                                 *)

\* Lines of Windows-format reports.
WinLineSet ==
  { "xcp scan \\s\n",
    "3 scanned, 5 errors, 1s\n",
    "2 errors, \n",
    "xcp scan \\s, 9 errors, \n",
    "x errors, \n",
    "== Depth ==\n",
    "        a\n",
    "      1.5K\n",
    "Total space used: 1KiB\n",
    "\n" }

\* Lines of CSV-format reports.
CsvLineSet ==
  { "scan h:/x\n",
    "scan \n",
    "summary,\"1 scanned, 4 errors, 1s.\"\n",
    "Depth,a,b\n",
    "Depth,1,2\n",
    "Depth,1\n",
    "Depthx,1,2\n",
    "Total space used,100\n",
    "Junctions,x\n",
    "other\n" }

\* The reports of the aggregation runs.
BatchFiles ==
  [ x \in {"w100.txt", "w300.txt", "w200.txt", "c50.csv", "none.csv", "bad.txt"} |->
      CASE x = "w100.txt" ->
             << "Total space used: 100\n", "== Depth ==\n",
                "        a        b\n", "        1        2\n" >>
        [] x = "w300.txt" ->
             << "Total space used: 300\n", "3 scanned, 5 errors, 1s\n" >>
        [] x = "w200.txt" ->
             << "xcp scan \\s\n", "Total space used: 200\n", "== Created ==\n",
                "        a\n", "        7\n" >>
        [] x = "c50.csv" ->
             << "Total space used,50\n", "Depth,a,b\n", "Depth,1\n" >>
        [] x = "none.csv" -> << "scan h:/x\n" >>
        [] x = "bad.txt" -> << "== Depth ==\n" >> ]

\* One column of an aligned label row / value row pair: a label and a value,
\* each right-justified in `width` characters.
LabelSet == {".cpp", ".c", "other"}
ValueSet == {"7", "16328", "1.5K"}
WidthSet == {6, 10}

RJust(t, w) == [i \in 1..(w - Len(t)) |-> " "] \o << t >>

RECURSIVE JoinAll(_)
JoinAll(ss) == IF ss = << >> THEN "" ELSE Head(ss) \o JoinAll(Tail(ss))

Layouts == SeqsUpTo(LabelSet \X ValueSet \X WidthSet, MaxCols) \ {<< >>}

LabelRow(lay) ==
  JoinAll(Concat([k \in 1..Len(lay) |-> RJust(lay[k][1], lay[k][3])], Len(lay)))
ValueRow(lay) ==
  JoinAll(Concat([k \in 1..Len(lay) |-> RJust(lay[k][2], lay[k][3])], Len(lay)))

\* Row pairs given as written: the extension block and the age block.
GivenRows ==
  { << "  .zip       .pdf      other", " 19507      16328      22047" >>,
    << "\t  .zip       .pdf      other\n", "\t 19507      16328      22047\n" >>,
    << "  >1 year >1 month 1-31 days  1-24 hrs   <1 hour  <15 mins    future   invalid\n",
       "        1        2         3         4         5         6         7         8\n" >> }

---------------------------------------------------------------------------
(* The steps of __main__, src/parse_xcp_stats.py:209-299                   *)

fileName == fileNames[fileIdx]

IsCsv(name) == EndsWith(name, "csv")

\* Lines 213-217 and 131 / 158: open the next file and construct its record.
OpenFile ==
  /\ pc = "loop"
  /\ fileIdx <= Len(fileNames)
  /\ self' = NewScanStats(fileName)
  /\ loopLineNum' = 0
  /\ pc' = "parsing"
  /\ UNCHANGED << files, fileNames, fileIdx, file2stats, exc, lineNum, console,
                  header0, header, rows, outFile, line1, line2, fields >>

\* The state after one line of a parser: the record and the place to go on.
AfterLine(r, resume) ==
  /\ exc' = r.exc
  /\ IF r.exc # ""
       THEN pc' = "except" /\ UNCHANGED << self, loopLineNum >>
       ELSE pc' = "parsing" /\ self' = r.self /\ loopLineNum' = resume
  /\ UNCHANGED << files, fileNames, fileIdx, file2stats, lineNum, console,
                  header0, header, rows, outFile, line1, line2, fields >>

\* One pass of the loop of fromWindows (lines 133-153).
WindowsLine ==
  /\ pc = "parsing"
  /\ ~IsCsv(fileName)
  /\ loopLineNum < Len(files[fileName])
  /\ \E r \in {WinLine(self, files[fileName], loopLineNum)} :
       AfterLine(r, WinResume(loopLineNum, r.hist))

\* One pass of the loop of fromCSV (lines 161-202).
CSVLine ==
  /\ pc = "parsing"
  /\ IsCsv(fileName)
  /\ loopLineNum < Len(files[fileName])
  /\ \E r \in {CsvLine(self, files[fileName], loopLineNum)} :
       AfterLine(r, loopLineNum + 1)

\* Lines 154 / 207 and 217: the parser returns and the record is stored.
ReturnStats ==
  /\ pc = "parsing"
  /\ loopLineNum = Len(files[fileName])
  /\ file2stats' = Put(file2stats, fileName, self)
  /\ fileIdx' = fileIdx + 1
  /\ pc' = "loop"
  /\ UNCHANGED << files, fileNames, self, loopLineNum, exc, lineNum, console,
                  header0, header, rows, outFile, line1, line2, fields >>

\* `if lineNum:` (line 219): None and 0 are false.
Truthy(v) == v.k = "num" /\ v.n # 0

\* Where the handler of lines 218-221 leaves the loop: `raise` ends the run.
Reraise(idx) == [pc |-> "crashed", fileIdx |-> idx]

\* Lines 218-221: the handler of an exception raised while parsing.
Except ==
  /\ pc = "except"
  /\ console' = IF Truthy(lineNum)
                  THEN Append(console, [kind |-> "error", file |-> fileName,
                                        line |-> lineNum.n + 1])
                  ELSE console
  /\ pc' = Reraise(fileIdx).pc
  /\ fileIdx' = Reraise(fileIdx).fileIdx
  /\ UNCHANGED << files, fileNames, file2stats, self, loopLineNum, exc, lineNum,
                  header0, header, rows, outFile, line1, line2, fields >>

\* Lines 225-249: the header rows; fileNames[0] of an empty batch raises.
BuildHeader ==
  /\ pc = "loop"
  /\ fileIdx > Len(fileNames)
  /\ IF fileNames = << >>
       THEN /\ exc' = "IndexError"
            /\ pc' = "crashed"
            /\ UNCHANGED << header0, header >>
       ELSE /\ header0' = MkHeader0(file2stats[fileNames[1]])
            /\ header' = MkHeader(file2stats[fileNames[1]])
            /\ pc' = "rows"
            /\ exc' = exc
  /\ UNCHANGED << files, fileNames, fileIdx, file2stats, self, loopLineNum,
                  lineNum, console, rows, outFile, line1, line2, fields >>

\* Lines 252-274: one row per file name.
BuildRows ==
  /\ pc = "rows"
  /\ rows' = [k \in 1..Len(fileNames) |->
                MkRow(fileNames[k], file2stats[fileNames[k]])]
  /\ pc' = "output"
  /\ UNCHANGED << files, fileNames, fileIdx, file2stats, self, loopLineNum, exc,
                  lineNum, console, header0, header, outFile, line1, line2, fields >>

\* Lines 276-299: the summary line, the sort and the output file.
Output ==
  /\ pc = "output"
  /\ console' = Append(console,
       [kind |-> "summary", files |-> Len(fileNames),
        errors |-> Cardinality({k \in 1..Len(fileNames) :
                                  file2stats[fileNames[k]].nError # 0})])
  /\ rows' = SortRows(rows)
  /\ outFile' = << header0, header >> \o SortRows(rows)
  /\ pc' = "done"
  /\ UNCHANGED << files, fileNames, fileIdx, file2stats, self, loopLineNum, exc,
                  lineNum, header0, header, line1, line2, fields >>

Next ==
  \/ OpenFile
  \/ WindowsLine
  \/ CSVLine
  \/ ReturnStats
  \/ Except
  \/ BuildHeader
  \/ BuildRows
  \/ Output

\* A batch of reports: the aggregation runs.
Init ==
  /\ InitRun
  /\ files = BatchFiles
  /\ fileNames \in SeqsUpTo(DOMAIN BatchFiles, MaxFiles)
  /\ pc = "loop"
  /\ line1 = "" /\ line2 = "" /\ fields = NoFields

Spec == Init /\ [][Next]_vars

\* One report of either format with any lines: the parser runs.
InitParse ==
  /\ InitRun
  /\ \E name \in {"r.txt", "r.csv"} :
       /\ fileNames = << name >>
       /\ \E content \in SeqsUpTo(IF IsCsv(name) THEN CsvLineSet ELSE WinLineSet,
                                  MaxLines) :
            files = [x \in {name} |-> content]
  /\ pc = "loop"
  /\ line1 = "" /\ line2 = "" /\ fields = NoFields

SpecParse == InitParse /\ [][Next]_vars

\* A call of getfields on a pair of rows: the extractor runs.
InitFields ==
  /\ InitRun
  /\ files = EmptyDict
  /\ fileNames = << >>
  /\ pc = "getfields"
  /\ fields = NoFields
  /\ \/ \E lay \in Layouts : line1 = LabelRow(lay) /\ line2 = ValueRow(lay)
     \/ \E g \in GivenRows : line1 = g[1] /\ line2 = g[2]

GetFields ==
  /\ pc = "getfields"
  /\ fields' = getfields(line1, line2)
  /\ pc' = "returned"
  /\ UNCHANGED << files, fileNames, fileIdx, file2stats, self, loopLineNum, exc,
                  lineNum, console, header0, header, rows, outFile, line1, line2 >>

NextFields == GetFields

SpecFields == InitFields /\ [][NextFields]_vars

---------------------------------------------------------------------------
(* Properties of the comparison table (Spec).                              *)

\* The data rows of the output file, in the order written.
DataRows == SubSeq(outFile, 3, Len(outFile))

\* The file name a row starts with.
RowFile(row) == row[1].v.s

\* C1: for a non-empty batch, both header rows and every data row of the
\* table written have the same number of cells.
EveryRowSameWidth ==
  (pc = "done" /\ fileNames # << >>) =>
     \A i, j \in 1..Len(outFile) : Len(outFile[i]) = Len(outFile[j])

\* C2: a histogram title absent from the record of the first file has no
\* cell in either header row nor in any data row, whatever the other
\* records hold.
AbsentInReferenceOmitted ==
  pc = "done" =>
     \A t \in Range(Histograms) :
        t \notin DOMAIN file2stats[fileNames[1]].hists =>
           \A i \in 1..Len(outFile) : \A j \in 1..Len(outFile[i]) :
              outFile[i][j].grp # t

\* The "Total space used" cell of a row, found by what it was emitted for.
SpaceUsed(row) ==
  (CHOOSE c \in Range(row) : c.grp = "Total space used").v

\* a >= b on "Total space used" values; a record without the scalar holds
\* None, which Python 2 orders below every number.
NotBelow(a, b) == b.k = "None" \/ (a.k = "num" /\ b.k = "num" /\ a.n >= b.n)

Count(seq, x) == Cardinality({k \in 1..Len(seq) : seq[k] = x})

IsPermutation(a, b) ==
  /\ Len(a) = Len(b)
  /\ \A x \in Range(a) \cup Range(b) : Count(a, x) = Count(b, x)

\* C3: the data rows written are in non-increasing order of the "Total
\* space used" value of their record, and are a permutation of the rows
\* built one per input file.
RowsSortedBySpaceDescending ==
  pc = "done" =>
     /\ \A i \in 1..(Len(DataRows) - 1) :
           NotBelow(SpaceUsed(DataRows[i]), SpaceUsed(DataRows[i + 1]))
     /\ IsPermutation(DataRows,
                      [k \in 1..Len(fileNames) |->
                         MkRow(fileNames[k], file2stats[fileNames[k]])])

\* C3 witness: the reports with 100, 300, 200 come out as 300, 200, 100.
SortedThreeWitness ==
  /\ pc = "done"
  /\ fileNames = << "w100.txt", "w300.txt", "w200.txt" >>
  /\ [k \in 1..Len(DataRows) |-> RowFile(DataRows[k])]
       = << "w300.txt", "w200.txt", "w100.txt" >>
  /\ [k \in 1..Len(DataRows) |-> SpaceUsed(DataRows[k]).n] = << 300, 200, 100 >>

\* C4: when the parse of one file of the batch fails, the failure is
\* reported, every other file of the batch is still parsed, and the table is
\* still built and written.
ParseFailureSparesBatch ==
  (pc = "crashed" /\ fileNames # << >>) =>
     /\ \E k \in 1..Len(console) :
           console[k].kind = "error" /\ console[k].file = fileName
     /\ \A k \in 1..Len(fileNames) :
           k # fileIdx => fileNames[k] \in DOMAIN file2stats
     /\ outFile # << >>

---------------------------------------------------------------------------
(* Properties of the parsers (SpecParse).                                  *)

FirstField(line) == SplitOn(line, ",")[1]

\* The 0-based indices, from n on, of the lines fromCSV meets in its normal
\* state with a histogram title as first field; the line after each is the
\* value row and is not met in the normal state.
RECURSIVE CsvTriggers(_, _)
CsvTriggers(lines, n) ==
  IF n >= Len(lines) THEN {}
  ELSE IF FirstField(lines[n + 1]) \in Range(Histograms)
         THEN {n} \cup CsvTriggers(lines, n + 2)
         ELSE CsvTriggers(lines, n + 1)

\* The CSV reports for which a record was returned.
ParsedCsv == {name \in DOMAIN file2stats : IsCsv(name)}

IsWinTitleLine(line) ==
  ~StartsWith(line, "xcp scan") /\ WinTitle(line) \in Range(Histograms)

\* C7: when fromWindows fails on a histogram title line that fewer than two
\* lines follow, no record is kept for the file and the console names the
\* file and the 1-based number of that line.
TitleErrorNamesFileAndLine ==
  ( /\ pc = "crashed"
    /\ fileNames # << >>
    /\ ~IsCsv(fileName)
    /\ loopLineNum < Len(files[fileName])
    /\ IsWinTitleLine(files[fileName][loopLineNum + 1])
    /\ loopLineNum + 2 >= Len(files[fileName]) ) =>
     /\ fileName \notin DOMAIN file2stats
     /\ \E k \in 1..Len(console) :
           /\ console[k].kind = "error"
           /\ console[k].file = fileName
           /\ console[k].line = loopLineNum + 1

\* C8: every histogram of every record returned by a parser has as many
\* values as labels.
LabelsMatchValues ==
  \A name \in DOMAIN file2stats :
     \A t \in DOMAIN file2stats[name].hists :
        Len(file2stats[name].hists[t].labels) = Len(file2stats[name].hists[t].values)

\* The 0-based indices, from n on, of the lines that would never be examined
\* if scanning resumed three lines after each histogram title.
RECURSIVE WinConsumed(_, _)
WinConsumed(lines, n) ==
  IF n >= Len(lines) THEN {}
  ELSE IF IsWinTitleLine(lines[n + 1]) /\ n + 2 < Len(lines)
         THEN {n + 1, n + 2} \cup WinConsumed(lines, n + 3)
         ELSE WinConsumed(lines, n + 1)

\* A step of the loop of fromWindows.
WinStep == pc = "parsing" /\ ~IsCsv(fileName) /\ loopLineNum < Len(files[fileName])

\* C9 as claimed: the two lines read by the extractor after a histogram
\* title are not examined, so the step of the loop at such a line changes
\* neither the source, the error count, the histograms nor the scalars.
ConsumedLinesLeaveRecord ==
  [][ (WinStep /\ loopLineNum \in WinConsumed(files[fileName], 0)) =>
         /\ self'.source = self.source
         /\ self'.nError = self.nError
         /\ self'.hists = self.hists
         /\ self'.single = self.single ]_vars

\* C9 as amended: after a line at index i matched a histogram title and the
\* extractor read lines i+1 and i+2, scanning resumes at line i+1, as after
\* any other line.
TitleResumesAtNextLine ==
  [][ (WinStep /\ IsWinTitleLine(files[fileName][loopLineNum + 1])
         /\ pc' = "parsing") =>
         loopLineNum' = loopLineNum + 1 ]_vars

\* C9 witness: the label row read by the extractor for the title on the first
\* line was then examined as an error-count line and set the error count.
LabelRowExaminedWitness ==
  /\ pc = "parsing"
  /\ fileNames = << "r.txt" >>
  /\ Len(files["r.txt"]) = 3
  /\ IsWinTitleLine(files["r.txt"][1])
  /\ files["r.txt"][2] = "2 errors, \n"
  /\ loopLineNum = 2
  /\ "Depth" \in DOMAIN self.hists
  /\ self.hists["Depth"].labels = << "2", "errors," >>
  /\ self.nError = 2

\* An error-count line as fromWindows meets it: the line holds the marker
\* and is not a scan-invocation line.
IsErrorCountLine(line) ==
  ~StartsWith(line, "xcp scan") /\ Contains(line, " errors, ")

\* The integer count on an error-count line.
ErrorCountOn(line) ==
  LET fs == SplitOn(line, ",")
      at == SetMin({k \in 1..Len(fs) : Contains(fs[k], "errors")})
  IN  PyInt(SplitWS(fs[at])[1]).n

\* The counts on the error-count lines among the first n lines.
CountsSeen(lines, n) ==
  {ErrorCountOn(lines[k]) : k \in {j \in 1..n : IsErrorCountLine(lines[j])}}

\* C10: in fromWindows, after any prefix of the lines the error count of the
\* record is the largest count on the error-count lines seen so far, 0 if
\* there is none; so is the count of the record returned.
ErrorCountIsMaxSeen ==
  /\ (pc = "parsing" /\ ~IsCsv(fileName)) =>
        self.nError = SetMax({0} \cup CountsSeen(files[fileName], loopLineNum))
  /\ \A name \in DOMAIN file2stats :
        ~IsCsv(name) =>
           file2stats[name].nError
             = SetMax({0} \cup CountsSeen(files[name], Len(files[name])))

\* C10 witness: a count of 5 was followed by a count of 2 and 5 is kept.
LargerCountKeptWitness ==
  /\ pc = "parsing"
  /\ fileNames = << "r.txt" >>
  /\ loopLineNum = 2
  /\ files["r.txt"][1] = "3 scanned, 5 errors, 1s\n"
  /\ files["r.txt"][2] = "2 errors, \n"
  /\ self.nError = 5

---------------------------------------------------------------------------
(* Properties of the extractor (SpecFields).                               *)

\* The characters of s in the columns [a, b), as far as s has them.
Columns(s, a, b) ==
  SubSeq(s, (IF a < 0 THEN 0 ELSE a) + 1, IF b > Len(s) THEN Len(s) ELSE b)

\* C6: getfields returns the whitespace-separated tokens of the label row in
\* order and, for each token ending at offset e, the normalized content of
\* the columns [e - MaxField, e) of the value row.
FieldsSlicedAtTokenEnd ==
  (pc = "returned" /\ ~Contains(line1, ">1 year")) =>
     LET spans == TokenSpans(line1, 0)
         want == [k \in 1..Len(spans) |->
                    convert(Columns(line2, spans[k].e - MaxField, spans[k].e))]
     IN  (\A k \in 1..Len(spans) : want[k].ok) =>
            /\ fields.ok
            /\ fields.names = SplitWS(line1)
            /\ fields.values = [k \in 1..Len(spans) |-> want[k].n]

=============================================================================
